---- MODULE Spec2Model ----
(***************************************************************************)
(* Model of junit_parser.py: a batch converter that scans one directory    *)
(* for *.xml files, extracts name/tests/time of the suite element of each  *)
(* file and prints one CSV row per file that yields a record.              *)
(***************************************************************************)
EXTENDS Integers, Sequences, FiniteSets, TLC

\* ------------------------------------------------------------------------
\* Bounds of the model
\* ------------------------------------------------------------------------
\* number of positional command-line arguments ranges over 0..MaxArgs
MaxArgs == 2
\* a directory holds at most MaxEntries entries
MaxEntries == 3

\* ------------------------------------------------------------------------
\* File names: sequences of characters, ordered by code point
\* ------------------------------------------------------------------------
Ord(c) ==
  CASE c = "." -> 46
    [] c = "B" -> 66
    [] c = "a" -> 97
    [] c = "c" -> 99
    [] c = "d" -> 100
    [] c = "l" -> 108
    [] c = "m" -> 109
    [] c = "t" -> 116
    [] c = "x" -> 120
    [] c = "z" -> 122

NameA == <<"a", ".", "x", "m", "l">>
NameB == <<"B", ".", "x", "m", "l">>
NameC == <<"c", "c", ".", "x", "m", "l">>
NameTxt == <<"d", ".", "t", "x", "t">>
NameNoDot == <<"c", "x", "m", "l">>
\* a file inside a subdirectory of the scanned directory
NameInner == <<"z", ".", "x", "m", "l">>

\* names the pattern *.xml matches, and names it does not
XmlNames == {NameA, NameB, NameC}

DecoyNames == {NameTxt, NameNoDot}

Names == XmlNames \cup DecoyNames

\* pathlib's glob('*.xml') on one path component: any prefix, then ".xml"
GlobMatch(name) ==
  /\ Len(name) >= 4
  /\ SubSeq(name, Len(name) - 3, Len(name)) = <<".", "x", "m", "l">>

\* str.__lt__ on the final path component (all paths share the directory part)
RECURSIVE StrLess(_, _)
StrLess(s, t) ==
  IF t = <<>> THEN FALSE
  ELSE IF s = <<>> THEN TRUE
  ELSE IF Ord(Head(s)) # Ord(Head(t)) THEN Ord(Head(s)) < Ord(Head(t))
  ELSE StrLess(Tail(s), Tail(t))

\* PurePath.__lt__ for two paths of the scanned directory
PathLess(p, q) == StrLess(p, q)

\* ------------------------------------------------------------------------
\* Documents: what ET.parse finds in a file
\* ------------------------------------------------------------------------
El(tag, attrs, children) == [tag |-> tag, attrs |-> attrs, children |-> children]

Leaf(tag) == El(tag, <<>>, <<>>)

XmlDoc(root) == [kind |-> "xml", root |-> root, err |-> ""]

BadDoc(kind, err) == [kind |-> kind, root |-> Leaf(""), err |-> err]

DocIds ==
  {"ts_full", "ts_bare", "ts_raw", "tss_child", "tss_two", "tss_none",
   "tss_deep", "tss_mixed", "other_root", "malformed", "unreadable"}

Doc(id) ==
  CASE id = "ts_full" ->
         XmlDoc(El("testsuite",
                   <<<<"name", "Foo">>, <<"tests", "12">>, <<"time", "3.4">>>>,
                   <<Leaf("testcase")>>))
    [] id = "ts_bare" -> XmlDoc(El("testsuite", <<<<"errors", "1">>>>, <<>>))
    [] id = "ts_raw" ->
         XmlDoc(El("testsuite",
                   <<<<"time", "">>, <<"tests", "many">>, <<"name", "">>>>,
                   <<>>))
    [] id = "tss_child" ->
         XmlDoc(El("testsuites", <<<<"name", "All">>>>,
                   <<El("testsuite",
                        <<<<"name", "Bar">>, <<"tests", "5">>, <<"time", "1.0">>>>,
                        <<>>)>>))
    [] id = "tss_two" ->
         XmlDoc(El("testsuites", <<>>,
                   <<Leaf("properties"),
                     El("testsuite", <<<<"name", "First">>, <<"tests", "1">>>>, <<>>),
                     El("testsuite", <<<<"name", "Second">>, <<"tests", "2">>>>, <<>>)>>))
    [] id = "tss_none" ->
         XmlDoc(El("testsuites", <<<<"name", "Empty">>>>, <<Leaf("properties")>>))
    [] id = "tss_deep" ->
         XmlDoc(El("testsuites", <<>>,
                   <<El("group", <<>>,
                        <<El("testsuite", <<<<"name", "Deep">>, <<"tests", "3">>>>, <<>>)>>)>>))
    [] id = "tss_mixed" ->
         XmlDoc(El("testsuites", <<>>,
                   <<El("group", <<>>,
                        <<El("testsuite", <<<<"name", "Inner">>, <<"time", "9">>>>, <<>>)>>),
                     El("testsuite", <<<<"name", "Outer">>, <<"time", "2">>>>, <<>>)>>))
    [] id = "other_root" ->
         XmlDoc(El("report", <<<<"name", "Rep">>, <<"tests", "4">>>>,
                   <<Leaf("testsuite")>>))
    [] id = "malformed" -> BadDoc("malformed", "syntax error: line 1, column 0")
    [] id = "unreadable" -> BadDoc("unreadable", "[Errno 13] Permission denied")

\* ------------------------------------------------------------------------
\* parse_junit_xml
\* ------------------------------------------------------------------------
\* Python's None and the returned dict, as one record shape
None == [isNone |-> TRUE, name |-> "", tests |-> "", time |-> ""]

Record(name, tests, time) ==
  [isNone |-> FALSE, name |-> name, tests |-> tests, time |-> time]

\* `if data:` -- None is falsy, a dict with three keys is truthy
Truthy(data) == ~data.isNone

Diag(msg, file, err) == [msg |-> msg, file |-> file, err |-> err]

\* variant: `get(key) or default`, an empty attribute falls back to the default
GetOrDefault(el, key, default) ==
  LET idx == {i \in 1..Len(el.attrs) : el.attrs[i][1] = key}
  IN  IF idx = {} \/ el.attrs[CHOOSE i \in idx : TRUE][2] = ""
      THEN default
      ELSE el.attrs[CHOOSE i \in idx : TRUE][2]

\* Element.get(key, default)
Get(el, key, default) ==
  LET idx == {i \in 1..Len(el.attrs) : el.attrs[i][1] = key}
  IN  IF idx = {} THEN default ELSE el.attrs[CHOOSE i \in idx : TRUE][2]

\* variant: the last matching child instead of the first
FindLast(el, tag) ==
  LET idx == {i \in 1..Len(el.children) : el.children[i].tag = tag}
  IN  IF idx = {} THEN <<>>
      ELSE <<el.children[CHOOSE i \in idx : \A j \in idx : i >= j]>>

\* Element.find(tag): the first direct child with that tag, <<>> for None
Find(el, tag) ==
  LET idx == {i \in 1..Len(el.children) : el.children[i].tag = tag}
  IN  IF idx = {} THEN <<>>
      ELSE <<el.children[CHOOSE i \in idx : \A j \in idx : i <= j]>>

\* the dict built from the resolved suite element
SuiteRecord(testsuite) ==
  Record(Get(testsuite, "name", "Unknown"),
         Get(testsuite, "tests", "0"),
         Get(testsuite, "time", "0"))

\* variant: the except branch returns None without printing
ParseJunitXmlSilent(file, doc) ==
  IF doc.kind # "xml"
  THEN [data |-> None, diags |-> <<>>]
  ELSE IF doc.root.tag = "testsuite"
  THEN [data |-> SuiteRecord(doc.root), diags |-> <<>>]
  ELSE IF doc.root.tag = "testsuites"
  THEN LET found == Find(doc.root, "testsuite")
       IN  IF found = <<>>
           THEN [data |-> None, diags |-> <<>>]
           ELSE [data |-> SuiteRecord(found[1]), diags |-> <<>>]
  ELSE [data |-> None, diags |-> <<>>]

\* parse_junit_xml(xml_file): the returned value and the lines it prints to
\* sys.stderr
ParseJunitXml(file, doc) ==
  IF doc.kind # "xml"
  THEN [data |-> None, diags |-> <<Diag("Error parsing", file, doc.err)>>]
  ELSE IF doc.root.tag = "testsuite"
  THEN [data |-> SuiteRecord(doc.root), diags |-> <<>>]
  ELSE IF doc.root.tag = "testsuites"
  THEN LET found == Find(doc.root, "testsuite")
       IN  IF found = <<>>
           THEN [data |-> None, diags |-> <<>>]
           ELSE [data |-> SuiteRecord(found[1]), diags |-> <<>>]
  ELSE [data |-> None, diags |-> <<>>]

\* ------------------------------------------------------------------------
\* find_xml_files
\* ------------------------------------------------------------------------
Range(s) == {s[i] : i \in 1..Len(s)}

\* every order in which the directory iterator may yield the members of S
Orders(S) == {s \in [1..Cardinality(S) -> S] : Range(s) = S}

\* variant: the is_file() test is missing
FindXmlFilesAnyEntry(kind, dir) ==
  IF kind = "missing"
  THEN {[files |-> <<>>, diags |-> <<Diag("Error: Directory does not exist", <<>>, "")>>]}
  ELSE IF kind = "notdir"
  THEN {[files |-> <<>>, diags |-> <<Diag("Error: not a directory", <<>>, "")>>]}
  ELSE {[files |-> o, diags |-> <<>>] :
          o \in Orders({n \in DOMAIN dir : GlobMatch(n)})}

\* find_xml_files(directory): the returned list, in any order glob may
\* produce, and the lines printed to sys.stderr
FindXmlFiles(kind, dir) ==
  IF kind = "missing"
  THEN {[files |-> <<>>, diags |-> <<Diag("Error: Directory does not exist", <<>>, "")>>]}
  ELSE IF kind = "notdir"
  THEN {[files |-> <<>>, diags |-> <<Diag("Error: not a directory", <<>>, "")>>]}
  ELSE {[files |-> o, diags |-> <<>>] :
          o \in Orders({n \in DOMAIN dir : GlobMatch(n) /\ dir[n].kind = "file"})}

\* ------------------------------------------------------------------------
\* sorted(xml_files)
\* ------------------------------------------------------------------------
RECURSIVE Insert(_, _)
Insert(x, s) ==
  IF s = <<>> THEN <<x>>
  ELSE IF PathLess(x, Head(s)) THEN <<x>> \o s
  ELSE <<Head(s)>> \o Insert(x, Tail(s))

\* variant: the list is iterated in the order the scanner returned it
Unsorted(s) == s

RECURSIVE Sorted(_)
Sorted(s) == IF s = <<>> THEN <<>> ELSE Insert(Head(s), Sorted(Tail(s)))

\* ------------------------------------------------------------------------
\* Output formatting
\* ------------------------------------------------------------------------
Header == "TestSuite,Tests,Runtime"

\* f"{data['name']},{data['tests']},{data['time']}"
Row(data) == data.name \o "," \o data.tests \o "," \o data.time

\* ------------------------------------------------------------------------
\* State
\* ------------------------------------------------------------------------
VARIABLES
  argc,       \* number of positional arguments, len(sys.argv) - 1
  pathKind,   \* what the directory argument names: "missing", "notdir", "dir"
  entries,    \* the directory's immediate children: name -> entry
  pc,         \* position of main
  xml_files,  \* the list returned by find_xml_files
  todo,       \* the part of sorted(xml_files) the loop has not reached
  stdout,     \* lines written to sys.stdout
  stderr,     \* lines written to sys.stderr
  status,     \* exit status; NoStatus while the process runs
  calls,      \* log of parse_junit_xml invocations, one entry per call
  scans       \* number of find_xml_files invocations

vars == <<argc, pathKind, entries, pc, xml_files, todo, stdout, stderr,
          status, calls, scans>>

NoStatus == -1

FileEntry(d) == [kind |-> "file", doc |-> d, inner |-> {}]

DirEntry(inner) == [kind |-> "dir", doc |-> "none", inner |-> inner]

EntryValues(n) ==
  IF n \in XmlNames
  THEN {FileEntry(d) : d \in DocIds} \cup {DirEntry({}), DirEntry({NameInner})}
  ELSE {FileEntry("ts_full"), DirEntry({NameInner})}

\* what ET.parse(xml_file) meets at an entry: opening a directory raises
EntryDoc(e) ==
  IF e.kind = "file" THEN Doc(e.doc)
  ELSE BadDoc("unreadable", "[Errno 21] Is a directory")

Directories ==
  UNION {{d \in [S -> UNION {EntryValues(n) : n \in S}] :
            \A n \in S : d[n] \in EntryValues(n)} :
         S \in {T \in SUBSET Names : Cardinality(T) <= MaxEntries}}

Init ==
  /\ argc \in 0..MaxArgs
  /\ \/ pathKind \in {"missing", "notdir"} /\ entries = <<>>
     \/ pathKind = "dir" /\ entries \in Directories
  /\ pc = "start"
  /\ xml_files = <<>>
  /\ todo = <<>>
  /\ stdout = <<>>
  /\ stderr = <<>>
  /\ status = NoStatus
  /\ calls = <<>>
  /\ scans = 0

\* ------------------------------------------------------------------------
\* main
\* ------------------------------------------------------------------------
\* variant: `len(sys.argv) < 2` is false
ArgsAtLeastOne(n) == n + 1 >= 2

\* `len(sys.argv) != 2` is false
ArgsOk(n) == n + 1 = 2

\* wrong argument count: usage line, sys.exit(1)
UsageExit ==
  /\ pc = "start"
  /\ ~ArgsOk(argc)
  /\ stderr' = Append(stderr, Diag("Usage: python junit_parser.py <directory>", <<>>, ""))
  /\ status' = 1
  /\ pc' = "exit"
  /\ UNCHANGED <<argc, pathKind, entries, xml_files, todo, stdout, calls, scans>>

\* xml_files = find_xml_files(directory)
ScanDirectory ==
  /\ pc = "start"
  /\ ArgsOk(argc)
  /\ \E r \in FindXmlFiles(pathKind, entries) :
       /\ xml_files' = r.files
       /\ stderr' = stderr \o r.diags
  /\ scans' = scans + 1
  /\ pc' = "check"
  /\ UNCHANGED <<argc, pathKind, entries, todo, stdout, status, calls>>

\* variant: the empty file set is reported but the process exits with 0
NoFilesExitZero ==
  /\ pc = "check"
  /\ xml_files = <<>>
  /\ stderr' = Append(stderr, Diag("No XML files found in directory", <<>>, ""))
  /\ status' = 0
  /\ pc' = "exit"
  /\ UNCHANGED <<argc, pathKind, entries, xml_files, todo, stdout, calls, scans>>

\* `if not xml_files:` diagnostic, sys.exit(1)
NoFilesExit ==
  /\ pc = "check"
  /\ xml_files = <<>>
  /\ stderr' = Append(stderr, Diag("No XML files found in directory", <<>>, ""))
  /\ status' = 1
  /\ pc' = "exit"
  /\ UNCHANGED <<argc, pathKind, entries, xml_files, todo, stdout, calls, scans>>

\* print the header, then enter the loop over sorted(xml_files)
EmitHeader ==
  /\ pc = "check"
  /\ xml_files # <<>>
  /\ stdout' = Append(stdout, Header)
  /\ todo' = Sorted(xml_files)
  /\ pc' = "loop"
  /\ UNCHANGED <<argc, pathKind, entries, xml_files, stderr, status, calls, scans>>

\* variant: a file without a record ends the loop
ProcessFileAbort ==
  /\ pc = "loop"
  /\ todo # <<>>
  /\ LET xml_file == Head(todo)
         r == ParseJunitXml(xml_file, EntryDoc(entries[xml_file]))
         out == IF Truthy(r.data) THEN <<Row(r.data)>> ELSE <<>>
     IN  /\ stderr' = stderr \o r.diags
         /\ stdout' = stdout \o out
         /\ calls' = Append(calls, [file |-> xml_file, data |-> r.data,
                                    out |-> out, err |-> r.diags])
         /\ todo' = IF Truthy(r.data) THEN Tail(todo) ELSE <<>>
  /\ UNCHANGED <<argc, pathKind, entries, pc, xml_files, status, scans>>

\* variant: the extractor's diagnostic is printed without file=sys.stderr
ProcessFileDiagToStdout ==
  /\ pc = "loop"
  /\ todo # <<>>
  /\ LET xml_file == Head(todo)
         r == ParseJunitXml(xml_file, EntryDoc(entries[xml_file]))
         out == IF Truthy(r.data) THEN <<Row(r.data)>> ELSE <<>>
     IN  /\ stderr' = stderr
         /\ stdout' = stdout \o [i \in 1..Len(r.diags) |-> r.diags[i].msg] \o out
         /\ calls' = Append(calls, [file |-> xml_file, data |-> r.data,
                                    out |-> out, err |-> r.diags])
  /\ todo' = Tail(todo)
  /\ UNCHANGED <<argc, pathKind, entries, pc, xml_files, status, scans>>

\* one iteration of the loop: parse the next file, print its row if any
ProcessFile ==
  /\ pc = "loop"
  /\ todo # <<>>
  /\ LET xml_file == Head(todo)
         r == ParseJunitXml(xml_file, EntryDoc(entries[xml_file]))
         out == IF Truthy(r.data) THEN <<Row(r.data)>> ELSE <<>>
     IN  /\ stderr' = stderr \o r.diags
         /\ stdout' = stdout \o out
         /\ calls' = Append(calls, [file |-> xml_file, data |-> r.data,
                                    out |-> out, err |-> r.diags])
  /\ todo' = Tail(todo)
  /\ UNCHANGED <<argc, pathKind, entries, pc, xml_files, status, scans>>

\* variant: the exit status reports the files that gave no record
FinishFailing ==
  /\ pc = "loop"
  /\ todo = <<>>
  /\ status' = IF \E i \in 1..Len(calls) : ~Truthy(calls[i].data) THEN 1 ELSE 0
  /\ pc' = "exit"
  /\ UNCHANGED <<argc, pathKind, entries, xml_files, todo, stdout, stderr, calls, scans>>

\* the loop is exhausted, main returns and the interpreter exits with 0
Finish ==
  /\ pc = "loop"
  /\ todo = <<>>
  /\ status' = 0
  /\ pc' = "exit"
  /\ UNCHANGED <<argc, pathKind, entries, xml_files, todo, stdout, stderr, calls, scans>>

Next ==
  \/ UsageExit
  \/ ScanDirectory
  \/ NoFilesExit
  \/ EmitHeader
  \/ ProcessFile
  \/ Finish

Spec == Init /\ [][Next]_vars

\* ------------------------------------------------------------------------
\* Vocabulary of the properties
\* ------------------------------------------------------------------------
DotXml == <<".", "x", "m", "l">>

\* the name is some prefix followed by .xml
EndsWithXml(n) == \E k \in 0..Len(n) : SubSeq(n, k + 1, Len(n)) = DotXml

\* the regular files of the directory whose name ends with .xml
XmlFileSet == {n \in DOMAIN entries : EndsWithXml(n) /\ entries[n].kind = "file"}

Ascending(s) == \A i, j \in 1..Len(s) : i < j => PathLess(s[i], s[j])

\* the members of S in ascending path order
AscendingOrder(S) == CHOOSE s \in Orders(S) : Ascending(s)

DocOf(f) == EntryDoc(entries[f])

HasChild(el, tag) == \E i \in 1..Len(el.children) : el.children[i].tag = tag

\* root testsuite, or root testsuites with a testsuite child
RecordShape(doc) ==
  /\ doc.kind = "xml"
  /\ \/ doc.root.tag = "testsuite"
     \/ doc.root.tag = "testsuites" /\ HasChild(doc.root, "testsuite")

Failed(c) == ~Truthy(c.data)

Logged(f) == \E i \in 1..Len(stderr) : stderr[i].file = f

CallFiles == {calls[i].file : i \in 1..Len(calls)}

\* the rows of the calls made so far, in call order
RECURSIVE RowsOfCalls(_)
RowsOfCalls(cs) ==
  IF cs = <<>> THEN <<>>
  ELSE (IF Truthy(Head(cs).data) THEN <<Row(Head(cs).data)>> ELSE <<>>)
         \o RowsOfCalls(Tail(cs))

\* the rows of the files of fs, in the order of fs
RECURSIVE RowsOfFiles(_)
RowsOfFiles(fs) ==
  IF fs = <<>> THEN <<>>
  ELSE LET r == ParseJunitXml(Head(fs), DocOf(Head(fs)))
       IN  (IF Truthy(r.data) THEN <<Row(r.data)>> ELSE <<>>)
             \o RowsOfFiles(Tail(fs))

\* the complete CSV output of a run on the directory, from the directory alone
ExpectedOutput == <<Header>> \o RowsOfFiles(AscendingOrder(XmlFileSet))

IsPrefix(s, t) == Len(s) <= Len(t) /\ SubSeq(t, 1, Len(s)) = s

UsageLine == Diag("Usage: python junit_parser.py <directory>", <<>>, "")

\* ------------------------------------------------------------------------
\* Properties
\* ------------------------------------------------------------------------

\* C1: with exactly one argument and a non-empty file set the process ends
\* with status 0, whatever the per-file outcomes, also when every file fails
\* and only the header is written.
C1_ExitZero ==
  (pc = "exit" /\ argc = 1 /\ xml_files # <<>>) =>
     /\ status = 0
     /\ Len(calls) = Len(xml_files)

C1_Witness ==
  /\ pc = "exit" /\ status = 0 /\ argc = 1
  /\ Len(calls) >= 2
  /\ \A i \in 1..Len(calls) : Failed(calls[i])
  /\ \E i \in 1..Len(calls) : calls[i].err # <<>>
  /\ \E i \in 1..Len(calls) : calls[i].err = <<>>
  /\ stdout = <<Header>>

\* C2: when the scanned file set is empty (missing path, not a directory, no
\* *.xml file) main exits non-zero, the header is never written and the error
\* stream holds at least one diagnostic.
C2_EmptySetExit ==
  /\ (scans > 0 /\ (pathKind # "dir" \/ XmlFileSet = {})) => xml_files = <<>>
  /\ (scans > 0 /\ xml_files = <<>>) =>
        /\ stdout = <<>>
        /\ pc \in {"check", "exit"}
        /\ pc = "exit" => (status # 0 /\ status # NoStatus /\ stderr # <<>>)

C2_Witness ==
  /\ pc = "exit" /\ scans = 1 /\ xml_files = <<>>
  /\ pathKind = "dir" /\ DOMAIN entries # {}
  /\ status = 1 /\ Len(stderr) = 1 /\ stdout = <<>>

\* C3: the CSV output is the same for every order in which find_xml_files
\* returns the files: it is the header and the rows in ascending path order,
\* a function of the directory alone.
C3_OrderIndependent ==
  (pc = "exit" /\ status = 0) =>
     /\ stdout = ExpectedOutput
     /\ Ascending([i \in 1..Len(calls) |-> calls[i].file])

C3_Witness ==
  /\ pc = "exit" /\ status = 0
  /\ Len(stdout) >= 3
  /\ ~Ascending(xml_files)

\* C4: each file is passed to the extractor exactly once, a failing file does
\* not stop later files, and the CSV has one data row per file that yields a
\* record (root testsuite, or testsuites with a testsuite child) and no other.
C4_OneRowPerRecord ==
  /\ \A i, j \in 1..Len(calls) : calls[i].file = calls[j].file => i = j
  /\ CallFiles \subseteq Range(xml_files)
  /\ \A i \in 1..Len(calls) :
        /\ Truthy(calls[i].data) <=> RecordShape(DocOf(calls[i].file))
        /\ Len(calls[i].out) = (IF RecordShape(DocOf(calls[i].file)) THEN 1 ELSE 0)
  /\ (pc = "exit" /\ status = 0) =>
        /\ CallFiles = Range(xml_files)
        /\ Len(stdout) - 1 =
             Cardinality({f \in Range(xml_files) : RecordShape(DocOf(f))})

C4_Witness ==
  /\ pc = "exit" /\ status = 0
  /\ Len(calls) = 3
  /\ DocOf(calls[1].file).kind = "malformed"
  /\ Truthy(calls[2].data) /\ Truthy(calls[3].data)
  /\ Len(stdout) = 3

\* C5 as stated: every file that yields no record, for an exception or for an
\* unexpected root shape, has a diagnostic on the error stream once skipped.
C5_EveryFailureLogged ==
  \A i \in 1..Len(calls) : Failed(calls[i]) => Logged(calls[i].file)

\* C5 amended: a file whose open/parse raises is logged with its name and the
\* error text by the time it is skipped; a file skipped for its root shape
\* gets no diagnostic.
C5_ExceptionsLogged ==
  \A i \in 1..Len(calls) :
     LET f == calls[i].file
         doc == DocOf(f)
     IN  /\ doc.kind # "xml" =>
              /\ Failed(calls[i])
              /\ \E k \in 1..Len(stderr) : stderr[k].file = f /\ stderr[k].err = doc.err
              /\ Len(calls[i].err) = 1
         /\ doc.kind = "xml" => (calls[i].err = <<>> /\ ~Logged(f))

C5_Witness ==
  /\ \E i \in 1..Len(calls) :
        DocOf(calls[i].file).kind = "malformed" /\ Logged(calls[i].file)
  /\ \E i \in 1..Len(calls) :
        /\ DocOf(calls[i].file).kind = "xml"
        /\ Failed(calls[i])
        /\ ~Logged(calls[i].file)

\* the first element named tag below el, in document order, <<>> if none
RECURSIVE FirstDescendant(_, _)
RECURSIVE FirstInList(_, _)
FirstInList(els, tag) ==
  IF els = <<>> THEN <<>>
  ELSE IF Head(els).tag = tag THEN <<Head(els)>>
  ELSE LET below == FirstDescendant(Head(els), tag)
       IN  IF below # <<>> THEN below ELSE FirstInList(Tail(els), tag)

FirstDescendant(el, tag) == FirstInList(el.children, tag)

\* the attribute's text when the element carries it, else the default
AttrText(el, key, default) ==
  IF \E i \in 1..Len(el.attrs) : el.attrs[i][1] = key
  THEN el.attrs[CHOOSE i \in 1..Len(el.attrs) : el.attrs[i][1] = key][2]
  ELSE default

FieldsOf(el) ==
  Record(AttrText(el, "name", "Unknown"), AttrText(el, "tests", "0"),
         AttrText(el, "time", "0"))

IsSuitesCall(c) ==
  DocOf(c.file).kind = "xml" /\ DocOf(c.file).root.tag = "testsuites"

\* C6 as stated: under a testsuites root the suite element is the first
\* element named testsuite among the root's direct or descendant elements, and
\* there is no result only if no such element exists below the root.
C6_FirstDescendantUsed ==
  \A i \in 1..Len(calls) :
     IsSuitesCall(calls[i]) =>
        LET d == FirstDescendant(DocOf(calls[i].file).root, "testsuite")
        IN  IF d = <<>> THEN Failed(calls[i]) ELSE calls[i].data = FieldsOf(d[1])

\* C6 amended: under a testsuites root the suite element is the first DIRECT
\* child named testsuite, and there is no result exactly when the root has no
\* direct child named testsuite (deeper testsuite elements are not searched).
C6_FirstChildUsed ==
  \A i \in 1..Len(calls) :
     IsSuitesCall(calls[i]) =>
        LET root == DocOf(calls[i].file).root
        IN  IF HasChild(root, "testsuite")
            THEN \E k \in 1..Len(root.children) :
                    /\ root.children[k].tag = "testsuite"
                    /\ \A j \in 1..(k - 1) : root.children[j].tag # "testsuite"
                    /\ calls[i].data = FieldsOf(root.children[k])
            ELSE Failed(calls[i])

C6_Witness ==
  /\ \E i \in 1..Len(calls) :
        /\ IsSuitesCall(calls[i])
        /\ Len(DocOf(calls[i].file).root.children) = 3
        /\ calls[i].data.name = "First"
  /\ \E i \in 1..Len(calls) :
        /\ IsSuitesCall(calls[i])
        /\ FirstDescendant(DocOf(calls[i].file).root, "testsuite") # <<>>
        /\ Failed(calls[i])

\* the element the suite is read from: the root, or its first testsuite child
SuiteOf(doc) ==
  IF doc.root.tag = "testsuite" THEN doc.root
  ELSE doc.root.children[CHOOSE k \in 1..Len(doc.root.children) :
         /\ doc.root.children[k].tag = "testsuite"
         /\ \A j \in 1..(k - 1) : doc.root.children[j].tag # "testsuite"]

\* C7: record and row carry name, tests, time as the raw attribute text when
\* present (also when empty or non-numeric) and as Unknown, 0, 0 when absent;
\* the row is the three fields joined by commas, unquoted.
C7_RawOrDefault ==
  \A i \in 1..Len(calls) :
     Truthy(calls[i].data) =>
        LET id == entries[calls[i].file].doc
            want == FieldsOf(SuiteOf(DocOf(calls[i].file)))
        IN  /\ calls[i].data = want
            /\ calls[i].out = <<want.name \o "," \o want.tests \o "," \o want.time>>
            /\ id = "ts_full" => calls[i].out = <<"Foo,12,3.4">>
            /\ id = "tss_child" => calls[i].out = <<"Bar,5,1.0">>
            /\ id = "ts_bare" => calls[i].out = <<"Unknown,0,0">>
            /\ id = "ts_raw" => calls[i].out = <<",many,">>
            /\ id = "tss_two" => calls[i].out = <<"First,1,0">>

C7_Witness ==
  /\ \E i \in 1..Len(stdout) : stdout[i] = ",many,"
  /\ \E i \in 1..Len(stdout) : stdout[i] = "Unknown,0,0"
  /\ \E i \in 1..Len(calls) : entries[calls[i].file].doc = "ts_raw"

\* C8: with an argument count other than one, main exits 1 having written only
\* the usage line to the error stream, nothing to the output stream, and
\* neither the scanner nor the extractor is invoked.
C8_UsageOnly ==
  argc # 1 =>
     /\ scans = 0 /\ calls = <<>> /\ stdout = <<>> /\ xml_files = <<>>
     /\ pc \in {"start", "exit"}
     /\ pc = "start" => (stderr = <<>> /\ status = NoStatus)
     /\ pc = "exit" => (stderr = <<UsageLine>> /\ status = 1)

C8_Witness == pc = "exit" /\ argc = 2 /\ status = 1 /\ stderr = <<UsageLine>>

\* C9: the output stream is always a prefix of [header, rows of the
\* record-yielding files in sorted path order]; the header comes once, after
\* the non-empty check and before any extraction, a file's row is on the
\* stream before the next file is extracted, and no diagnostic goes there.
C9_OutputPrefix ==
  /\ pc \in {"start", "check"} => (stdout = <<>> /\ calls = <<>>)
  /\ calls # <<>> => (stdout # <<>> /\ xml_files # <<>>)
  /\ stdout # <<>> =>
        /\ stdout = <<Header>> \o RowsOfCalls(calls)
        /\ IsPrefix(stdout, ExpectedOutput)
        /\ [i \in 1..Len(calls) |-> calls[i].file] \o todo
             = AscendingOrder(XmlFileSet)
  /\ \A i \in 1..Len(stdout) : \A k \in 1..Len(stderr) : stdout[i] # stderr[k].msg

C9_Witness ==
  /\ pc = "loop" /\ todo # <<>>
  /\ Len(stdout) = 2
  /\ Len(calls) = 2
  /\ stderr # <<>>

\* C10: find_xml_files returns exactly the immediate children that match *.xml
\* and are regular files; a directory whose only *.xml entries are not files
\* is an empty file set: main exits 1 and the header is not written.
C10_RegularFilesOnly ==
  /\ scans > 0 =>
        /\ Range(xml_files) = (IF pathKind = "dir" THEN XmlFileSet ELSE {})
        /\ Len(xml_files) = Cardinality(Range(xml_files))
        /\ NameInner \notin Range(xml_files)
  /\ (argc = 1 /\ XmlFileSet = {}) =>
        /\ stdout = <<>>
        /\ pc = "exit" => status = 1

C10_Witness ==
  /\ pc = "exit" /\ status = 1 /\ argc = 1 /\ stdout = <<>>
  /\ \E n \in DOMAIN entries :
        EndsWithXml(n) /\ entries[n].kind = "dir" /\ entries[n].inner = {NameInner}

====
